---- MODULE Spec2Model ----
(***************************************************************************)
(* Model of drivers/power/reset/reboot-mode.c: the reboot-mode registry.   *)
(* One reboot_mode_driver handle ("reboot"), its mode table (reboot->head),*)
(* its mutex (reboot->rb_lock), the reboot notifier chain, one context     *)
(* running reboot_mode_register, one running reboot_mode_unregister and    *)
(* the contexts in which the host delivers reboot notifications.           *)
(*                                                                         *)
(* Strings are sequences of one-character strings.  A u64 magic is kept as *)
(* its two u32 halves [hi, lo]: (hi << 32) | lo.                           *)
(***************************************************************************)
EXTENDS Integers, Sequences, FiniteSets, TLC

\* ---------------------------------------------------------------- bounds

\* Longest configuration snapshot (number of properties of the node).
MaxProps == 2

\* How many times reboot_mode_unregister is called on the handle.
MaxUnreg == 2

\* ------------------------------------------------------ program constants

\* sizeof(cmd_): char cmd_[110]
CMD_SIZE == 110

\* #define PREFIX "mode-"
PREFIX == <<"m", "o", "d", "e", "-">>

\* const char *normal = "normal"
normal == <<"n", "o", "r", "m", "a", "l">>

\* Return values.
EINVAL == "-EINVAL"
ENOMEM == "-ENOMEM"
\* errno E2BIG; strscpy returns -E2BIG
E2BIG == 7
NOTIFY_DONE == "NOTIFY_DONE"

\* The magic a lookup returns when nothing matched: return 0.
Zero == [hi |-> 0, lo |-> 0]

\* The one handle of the model, and its notifier block.
Handle == "reboot"
reboot_notifier == "reboot->reboot_notifier"

\* ------------------------------------------------------------ input sets

Pad(n) == [i \in 1..n |-> "x"]

S_a == <<"a">>
\* 109 characters, the longest string the working buffer holds: S_fit holds a
\* space, a comma and a slash where L_fit holds hyphens.
L_fit == Pad(CMD_SIZE - 4) \o <<"-", "-", "-">>
S_fit == Pad(CMD_SIZE - 4) \o <<" ", ",", "/">>
\* 110 characters: one too many; its first 109 characters are S_fit.
S_long == S_fit \o <<"y">>

Key(s) == PREFIX \o s

\* A property of the node: its name and its value as a list of u32 cells.
Props ==
  { [name |-> Key(S_a), val |-> <<>>],
    [name |-> Key(<<>>), val |-> <<5>>],
    [name |-> Key(<<>>), val |-> <<>>],
    [name |-> <<"m", "o", "d", "e">>, val |-> <<7>>],
    [name |-> Key(normal), val |-> <<0>>],
    [name |-> Key(normal), val |-> <<3>>],
    [name |-> Key(L_fit), val |-> <<0, 1>>],
    [name |-> Key(S_fit), val |-> <<4>>],
    [name |-> Key(S_long), val |-> <<8>>] }

RECURSIVE SeqsUpTo(_, _)
SeqsUpTo(S, n) ==
  IF n = 0 THEN {<<>>}
  ELSE LET shorter == SeqsUpTo(S, n - 1)
       IN shorter \cup {Append(s, x) : s \in {t \in shorter : Len(t) = n - 1}, x \in S}

\* The np argument of reboot_mode_register: NULL, or a node with properties.
Nodes ==
  {[null |-> TRUE, props |-> <<>>]}
    \cup {[null |-> FALSE, props |-> ps] : ps \in SeqsUpTo(Props, MaxProps)}

\* The cmd argument of a reboot notification: NULL, or a string.
Cmds ==
  {[null |-> TRUE, str |-> <<>>]}
    \cup {[null |-> FALSE, str |-> s] : s \in {normal, S_fit, S_long}}

\* Execution contexts in which the host calls the notifier chain.
Ctx == {"n1", "n2"}

\* Entry ids: the mode_info allocated for the i-th property; 0 is &reboot->head.
Ids == 1..MaxProps

\* ----------------------------------------------------------------- state

VARIABLES
  np,          \* the device node handed to reboot_mode_register
  rpc,         \* reboot_mode_register: where its caller is
  ri,          \* reboot_mode_register: index of prop in the node's properties
  ret,         \* reboot_mode_register: its return value ("0" for 0), "none" until it returns
  initialized, \* INIT_LIST_HEAD and mutex_init have run on the handle
  head,        \* reboot->head: the ids of the linked entries, in list order
  mem,         \* the mode_info behind each id: [mode, magic] (kept after kfree)
  live,        \* ids whose mode_info is allocated (kzalloc'ed, not yet kfree'd)
  strs,        \* ids whose mode string is allocated (kstrdup_const'ed, not freed)
  rb_lock,     \* reboot->rb_lock: "free" or its owner
  chain,       \* the reboot notifier chain: the notifier blocks subscribed
  upc,         \* reboot_mode_unregister: where its caller is
  ucalls,      \* reboot_mode_unregister: how many calls have been made
  released,    \* per id: how many times a linked mode_info was kfree'd
  npc,         \* reboot_mode_notify, per context: where it is
  cmd,         \* reboot_mode_notify, per context: the cmd argument
  info,        \* get_reboot_mode_magic, per context: the list cursor
  cmd_,        \* get_reboot_mode_magic, per context: the working buffer
  magic,       \* reboot_mode_notify, per context: the local magic
  hit,         \* get_reboot_mode_magic, per context: the entry it returned from, 0 if none
  nwr,         \* per context: the reboot->write calls made by this notification
  nret,        \* per context: what the last notification returned
  uaf,         \* a freed mode_info has been read
  dpc,         \* devm_reboot_mode_register: where its caller is, "off" if not used
  dr,          \* the devres of devm_reboot_mode_register
  dret,        \* devm_reboot_mode_register: its return value, "none" until it returns
  scope_ended, \* the owning device's resources have been released
  dcalled      \* devm_reboot_mode_unregister has been called

vars ==
  <<np, rpc, ri, ret, initialized, head, mem, live, strs, rb_lock, chain, upc,
    ucalls, released, npc, cmd, info, cmd_, magic, hit, nwr, nret, uaf,
    dpc, dr, dret, scope_ended, dcalled>>

regVars == <<np, rpc, ri, ret, initialized>>
tableVars == <<head, mem, live, strs, released>>
notifyVars == <<npc, cmd, info, cmd_, magic, hit, nwr, nret>>
devmVars == <<dpc, dr, dret, scope_ended, dcalled>>

\* -------------------------------------------------------- library helpers

\* strncmp(name, PREFIX, len) == 0
HasPrefix(name, prefix) ==
  /\ Len(name) >= Len(prefix)
  /\ SubSeq(name, 1, Len(prefix)) = prefix

\* prop->name + len
AfterPrefix(name, prefix) == SubSeq(name, Len(prefix) + 1, Len(name))

\* of_property_read_u32(np, prop->name, &out): fails when the value has no cell.
of_property_read_u32(prop) ==
  IF Len(prop.val) >= 1 THEN [err |-> FALSE, out |-> prop.val[1]]
  ELSE [err |-> TRUE, out |-> 0]

\* of_property_read_u32_index(np, prop->name, 1, &out)
of_property_read_u32_index(prop, index) ==
  IF Len(prop.val) >= index + 1 THEN [err |-> FALSE, out |-> prop.val[index + 1]]
  ELSE [err |-> TRUE, out |-> 0]

\* Mutant of ComposeMagic: the two cells swapped.
ComposeMagic_Swapped(magic_arg1, magic_arg2) == [hi |-> magic_arg1, lo |-> magic_arg2]

\* info->magic = magic_arg2; info->magic = (info->magic << 32) | magic_arg1
ComposeMagic(magic_arg1, magic_arg2) == [hi |-> magic_arg2, lo |-> magic_arg1]

\* strscpy(dst, src, size): copies at most size - 1 characters and the
\* terminator; -E2BIG when src did not fit.
strscpy(src, size) ==
  IF Len(src) >= size THEN [dst |-> SubSeq(src, 1, size - 1), ret |-> -E2BIG]
  ELSE [dst |-> src, ret |-> Len(src)]

\* strreplace(s, old, new)
strreplace(s, old, new) == [i \in 1..Len(s) |-> IF s[i] = old THEN new ELSE s[i]]

\* Mutant of CopyTooBig: the result of strscpy is not looked at.
CopyTooBig_Ignored(r) == FALSE

\* strscpy(...) == -E2BIG
CopyTooBig(r) == r.ret = -E2BIG

\* Mutant of ModeTooShort: the name is not looked at.
ModeTooShort_Unchecked(mode) == FALSE

\* info->mode[0] == '\0'
ModeTooShort(mode) == mode = <<>>

\* Mutant of MagicFound: the write is made whatever the lookup returned.
MagicFound_Always(m) == TRUE

\* if (magic)
MagicFound(m) == m # Zero

\* Mutant of Normalize: the comma is left alone.
Normalize_NoComma(s) == strreplace(strreplace(s, " ", "-"), "/", "-")

\* strreplace(cmd_, ' ', '-'); strreplace(cmd_, ',', '-'); strreplace(cmd_, '/', '-')
Normalize(s) == strreplace(strreplace(strreplace(s, " ", "-"), ",", "-"), "/", "-")

\* Mutant of strcmp_eq: strncmp over the length of the entry's name.
strcmp_eq_Prefix(mode, s) == HasPrefix(s, mode)

\* !strcmp(info->mode, cmd)
strcmp_eq(mode, s) == mode = s

\* Mutant of list_add_tail: list_add, which links the entry at the front.
list_add(h, id) == <<id>> \o h

\* list_add_tail(&info->list, &reboot->head)
list_add_tail(h, id) == Append(h, id)

\* list_for_each_entry: the first entry, 0 when the list is empty.
list_first(h) == IF h = <<>> THEN 0 ELSE h[1]

\* list_for_each_entry: the entry after id, 0 at the end of the list.
list_next(h, id) ==
  LET p == CHOOSE k \in 1..Len(h) : h[k] = id
  IN IF p = Len(h) THEN 0 ELSE h[p + 1]

\* The reboot notifier chain of the host.
register_reboot_notifier(c, nb) == c \cup {nb}
unregister_reboot_notifier(c, nb) == c \ {nb}

\* Mutant of CmdStr: no default for an absent cmd.
CmdStr_NoDefault(c) == c.str

\* if (!cmd) cmd = normal
CmdStr(c) == IF c.null THEN normal ELSE c.str

NoCmd == [null |-> TRUE, str |-> <<>>]

\* ------------------------------------------------------------------ Init

\* The nodes of the device-managed registrations and of the liveness check:
\* NULL and every node whose properties are the mode "normal" with a magic or a
\* prefixed property with an empty name and a magic; with the allocation
\* failures these take every exit of Register.
FairNodes ==
  {n \in Nodes :
     \A k \in 1..Len(n.props) :
       n.props[k] \in {[name |-> Key(normal), val |-> <<3>>],
                       [name |-> Key(<<>>), val |-> <<5>>]}}

Init ==
  /\ np \in Nodes
  /\ rpc = "start"
  /\ ri = 1
  /\ ret = "none"
  /\ initialized = FALSE
  /\ head = <<>>
  /\ mem = [i \in Ids |-> [mode |-> <<>>, magic |-> Zero]]
  /\ live = {}
  /\ strs = {}
  /\ rb_lock = "free"
  /\ chain = {}
  /\ upc = "idle"
  /\ ucalls = 0
  /\ released = [i \in Ids |-> 0]
  /\ npc = [c \in Ctx |-> "idle"]
  /\ cmd = [c \in Ctx |-> NoCmd]
  /\ info = [c \in Ctx |-> 0]
  /\ cmd_ = [c \in Ctx |-> <<>>]
  /\ magic = [c \in Ctx |-> Zero]
  /\ hit = [c \in Ctx |-> 0]
  /\ nwr = [c \in Ctx |-> <<>>]
  /\ nret = [c \in Ctx |-> "none"]
  /\ uaf = FALSE
  /\ dpc \in IF np \in FairNodes THEN {"off", "alloc"} ELSE {"off"}
  /\ dr = "none"
  /\ dret = "none"
  /\ scope_ended = FALSE
  /\ dcalled = FALSE

\* -------------------------------------------------- reboot_mode_register

\* if (!np) return -EINVAL; INIT_LIST_HEAD; mutex_init; mutex_lock.
RegStart ==
  /\ rpc = "start"
  /\ dpc \in {"off", "reg"}
  /\ IF np.null
       THEN /\ ret' = EINVAL
            /\ rpc' = "fail"
            /\ UNCHANGED <<initialized, head, rb_lock>>
       ELSE /\ initialized' = TRUE
            /\ head' = <<>>
            /\ rb_lock' = "reg"
            /\ rpc' = "scan"
            /\ ret' = ret
  /\ UNCHANGED <<np, ri, mem, live, strs, released, chain, upc, ucalls, uaf>>
  /\ UNCHANGED notifyVars
  /\ UNCHANGED devmVars

\* One iteration of for_each_property_of_node; allocInfo and allocStr say
\* whether kzalloc and kstrdup_const can be satisfied.
RegScan(allocInfo, allocStr) ==
  /\ rpc = "scan"
  /\ ri <= Len(np.props)
  /\ LET prop == np.props[ri]
         arg1 == of_property_read_u32(prop)
         arg2 == of_property_read_u32_index(prop, 1)
         magic_arg2 == IF arg2.err THEN 0 ELSE arg2.out
         mode == AfterPrefix(prop.name, PREFIX)
     IN IF ~HasPrefix(prop.name, PREFIX)
          THEN \* continue
               /\ ri' = ri + 1
               /\ UNCHANGED <<rpc, ret, head, mem, live, strs>>
          ELSE IF ~allocInfo
          THEN \* kzalloc failed: ret = -ENOMEM; goto error
               /\ ret' = ENOMEM
               /\ rpc' = "error"
               /\ UNCHANGED <<ri, head, mem, live, strs>>
          ELSE IF arg1.err
          THEN \* reboot mode without magic number: kfree(info); continue
               /\ live' = (live \cup {ri}) \ {ri}
               /\ ri' = ri + 1
               /\ UNCHANGED <<rpc, ret, head, mem, strs>>
          ELSE IF ~allocStr
          THEN \* kstrdup_const failed: ret = -ENOMEM; kfree(info); goto error
               /\ live' = (live \cup {ri}) \ {ri}
               /\ ret' = ENOMEM
               /\ rpc' = "error"
               /\ UNCHANGED <<ri, head, mem, strs>>
          ELSE IF ModeTooShort(mode)
          THEN \* info->mode[0] == '\0': kfree_const; kfree; ret = -EINVAL; goto error
               /\ strs' = (strs \cup {ri}) \ {ri}
               /\ live' = (live \cup {ri}) \ {ri}
               /\ ret' = EINVAL
               /\ rpc' = "error"
               /\ UNCHANGED <<ri, head, mem>>
          ELSE \* list_add_tail(&info->list, &reboot->head)
               /\ live' = live \cup {ri}
               /\ strs' = strs \cup {ri}
               /\ mem' = [mem EXCEPT ![ri] =
                            [mode |-> mode,
                             magic |-> ComposeMagic(arg1.out, magic_arg2)]]
               /\ head' = list_add_tail(head, ri)
               /\ ri' = ri + 1
               /\ UNCHANGED <<rpc, ret>>
  /\ UNCHANGED <<np, initialized, released, rb_lock, chain, upc, ucalls, uaf>>
  /\ UNCHANGED notifyVars
  /\ UNCHANGED devmVars

\* After the loop: notifier_call = reboot_mode_notify; register_reboot_notifier.
RegSubscribe ==
  /\ rpc = "scan"
  /\ ri > Len(np.props)
  /\ chain' = register_reboot_notifier(chain, reboot_notifier)
  /\ rpc' = "unlock"
  /\ UNCHANGED <<np, ri, ret, initialized, rb_lock, upc, ucalls, uaf>>
  /\ UNCHANGED tableVars
  /\ UNCHANGED notifyVars
  /\ UNCHANGED devmVars

\* Mutant of RegUnlock: return 0 without mutex_unlock.
RegUnlock_KeepsLock ==
  /\ rpc = "unlock"
  /\ ret' = "0"
  /\ rpc' = "ok"
  /\ UNCHANGED <<np, ri, initialized, rb_lock, chain, upc, ucalls, uaf>>
  /\ UNCHANGED tableVars
  /\ UNCHANGED notifyVars
  /\ UNCHANGED devmVars

\* mutex_unlock(&reboot->rb_lock); return 0
RegUnlock ==
  /\ rpc = "unlock"
  /\ rb_lock' = "free"
  /\ ret' = "0"
  /\ rpc' = "ok"
  /\ UNCHANGED <<np, ri, initialized, chain, upc, ucalls, uaf>>
  /\ UNCHANGED tableVars
  /\ UNCHANGED notifyVars
  /\ UNCHANGED devmVars

\* Mutant of RegError: return ret in place of goto error.
RegError_ReturnsAtOnce ==
  /\ rpc = "error"
  /\ rpc' = "fail"
  /\ UNCHANGED <<np, ri, ret, initialized, rb_lock, chain, upc, ucalls, uaf>>
  /\ UNCHANGED tableVars
  /\ UNCHANGED notifyVars
  /\ UNCHANGED devmVars

\* error: list_for_each_entry_safe { list_del; kfree_const; kfree };
\* mutex_unlock; return ret
RegError ==
  /\ rpc = "error"
  /\ head' = <<>>
  /\ strs' = strs \ {head[k] : k \in 1..Len(head)}
  /\ live' = live \ {head[k] : k \in 1..Len(head)}
  /\ released' = [i \in Ids |->
                    IF i \in {head[k] : k \in 1..Len(head)}
                      THEN released[i] + 1 ELSE released[i]]
  /\ rb_lock' = "free"
  /\ rpc' = "fail"
  /\ UNCHANGED <<np, ri, ret, initialized, mem, chain, upc, ucalls, uaf>>
  /\ UNCHANGED notifyVars
  /\ UNCHANGED devmVars

\* ---------------------------------------------------- reboot_mode_notify

\* The host calls the chain: reboot_mode_notify(this, mode, cmd) is entered
\* only for a notifier block that is on the chain.
NotifyCall(c, s) ==
  /\ npc[c] = "idle"
  /\ reboot_notifier \in chain
  /\ npc' = [npc EXCEPT ![c] = "lock"]
  /\ cmd' = [cmd EXCEPT ![c] = s]
  /\ nret' = [nret EXCEPT ![c] = "none"]
  /\ UNCHANGED <<info, cmd_, magic, hit, nwr>>
  /\ UNCHANGED <<rb_lock, chain, upc, ucalls, uaf>>
  /\ UNCHANGED regVars
  /\ UNCHANGED tableVars
  /\ UNCHANGED devmVars

\* Mutant of NotifyLock: the lookup starts without taking the lock.
NotifyLock_NoLock(c) ==
  /\ npc[c] = "lock"
  /\ npc' = [npc EXCEPT ![c] = "scan1"]
  /\ info' = [info EXCEPT ![c] = list_first(head)]
  /\ UNCHANGED <<cmd, cmd_, magic, hit, nwr, nret>>
  /\ UNCHANGED <<rb_lock, chain, upc, ucalls, uaf>>
  /\ UNCHANGED regVars
  /\ UNCHANGED tableVars
  /\ UNCHANGED devmVars

\* mutex_lock(&reboot->rb_lock); get_reboot_mode_magic starts its first
\* list_for_each_entry.
NotifyLock(c) ==
  /\ npc[c] = "lock"
  /\ rb_lock = "free"
  /\ rb_lock' = c
  /\ npc' = [npc EXCEPT ![c] = "scan1"]
  /\ info' = [info EXCEPT ![c] = list_first(head)]
  /\ UNCHANGED <<cmd, cmd_, magic, hit, nwr, nret>>
  /\ UNCHANGED <<chain, upc, ucalls, uaf>>
  /\ UNCHANGED regVars
  /\ UNCHANGED tableVars
  /\ UNCHANGED devmVars

\* One iteration of a list_for_each_entry of get_reboot_mode_magic comparing
\* info->mode with the string want; at the end of the list the scan goes on
\* at atEnd.  Reading a mode_info that was freed is a use after free: any
\* magic may come back.
ScanStep(c, want, atEnd) ==
  IF info[c] = 0
    THEN /\ npc' = [npc EXCEPT ![c] = atEnd]
         /\ UNCHANGED <<info, magic, hit, uaf>>
    ELSE IF info[c] \notin live
    THEN /\ uaf' = TRUE
         /\ \E i \in Ids : magic' = [magic EXCEPT ![c] = mem[i].magic]
         /\ npc' = [npc EXCEPT ![c] = "unlock"]
         /\ UNCHANGED <<info, hit>>
    ELSE IF strcmp_eq(mem[info[c]].mode, want)
    THEN \* return info->magic
         /\ magic' = [magic EXCEPT ![c] = mem[info[c]].magic]
         /\ hit' = [hit EXCEPT ![c] = info[c]]
         /\ npc' = [npc EXCEPT ![c] = "unlock"]
         /\ UNCHANGED <<info, uaf>>
    ELSE /\ info' = [info EXCEPT ![c] = list_next(head, info[c])]
         /\ UNCHANGED <<npc, magic, hit, uaf>>

\* The exact pass: strcmp(info->mode, cmd).
NotifyScan1(c) ==
  /\ npc[c] = "scan1"
  /\ ScanStep(c, CmdStr(cmd[c]), "copy")
  /\ UNCHANGED <<cmd, cmd_, nwr, nret>>
  /\ UNCHANGED <<rb_lock, chain, upc, ucalls>>
  /\ UNCHANGED regVars
  /\ UNCHANGED tableVars
  /\ UNCHANGED devmVars

\* if (strscpy(cmd_, cmd, sizeof(cmd_)) == -E2BIG) return 0; the three
\* strreplace calls; the second list_for_each_entry starts.
NotifyCopy(c) ==
  /\ npc[c] = "copy"
  /\ LET r == strscpy(CmdStr(cmd[c]), CMD_SIZE)
     IN IF CopyTooBig(r)
          THEN /\ cmd_' = [cmd_ EXCEPT ![c] = r.dst]
               /\ magic' = [magic EXCEPT ![c] = Zero]
               /\ npc' = [npc EXCEPT ![c] = "unlock"]
               /\ info' = info
          ELSE /\ cmd_' = [cmd_ EXCEPT ![c] = Normalize(r.dst)]
               /\ info' = [info EXCEPT ![c] = list_first(head)]
               /\ npc' = [npc EXCEPT ![c] = "scan2"]
               /\ magic' = magic
  /\ UNCHANGED <<cmd, hit, nwr, nret>>
  /\ UNCHANGED <<rb_lock, chain, upc, ucalls, uaf>>
  /\ UNCHANGED regVars
  /\ UNCHANGED tableVars
  /\ UNCHANGED devmVars

\* The normalized pass: strcmp(info->mode, cmd_); return 0 at the end.
NotifyScan2(c) ==
  /\ npc[c] = "scan2"
  /\ ScanStep(c, cmd_[c], "unlock")
  /\ UNCHANGED <<cmd, cmd_, nwr, nret>>
  /\ UNCHANGED <<rb_lock, chain, upc, ucalls>>
  /\ UNCHANGED regVars
  /\ UNCHANGED tableVars
  /\ UNCHANGED devmVars

\* Mutant of NotifyUnlock: the write is made before mutex_unlock.
NotifyUnlock_AfterWrite(c) ==
  /\ npc[c] = "unlock"
  /\ npc' = [npc EXCEPT ![c] = IF MagicFound(magic[c]) THEN "write" ELSE "ret"]
  /\ cmd' = [cmd EXCEPT ![c] = NoCmd]
  /\ info' = [info EXCEPT ![c] = 0]
  /\ cmd_' = [cmd_ EXCEPT ![c] = <<>>]
  /\ UNCHANGED <<magic, hit, nwr, nret>>
  /\ UNCHANGED <<rb_lock, chain, upc, ucalls, uaf>>
  /\ UNCHANGED regVars
  /\ UNCHANGED tableVars
  /\ UNCHANGED devmVars

\* get_reboot_mode_magic has returned (its frame, and the last use of cmd, are
\* gone); mutex_unlock(&reboot->rb_lock); if (magic) ...
NotifyUnlock(c) ==
  /\ npc[c] = "unlock"
  /\ rb_lock' = "free"
  /\ npc' = [npc EXCEPT ![c] = IF MagicFound(magic[c]) THEN "write" ELSE "ret"]
  /\ cmd' = [cmd EXCEPT ![c] = NoCmd]
  /\ info' = [info EXCEPT ![c] = 0]
  /\ cmd_' = [cmd_ EXCEPT ![c] = <<>>]
  /\ UNCHANGED <<magic, hit, nwr, nret>>
  /\ UNCHANGED <<chain, upc, ucalls, uaf>>
  /\ UNCHANGED regVars
  /\ UNCHANGED tableVars
  /\ UNCHANGED devmVars

\* reboot->write(reboot, magic)
NotifyWrite(c) ==
  /\ npc[c] = "write"
  /\ nwr' = [nwr EXCEPT ![c] = Append(nwr[c], [reboot |-> Handle, magic |-> magic[c]])]
  /\ npc' = [npc EXCEPT ![c] = "ret"]
  /\ UNCHANGED <<cmd, info, cmd_, magic, hit, nret>>
  /\ UNCHANGED <<rb_lock, chain, upc, ucalls, uaf>>
  /\ UNCHANGED regVars
  /\ UNCHANGED tableVars
  /\ UNCHANGED devmVars

\* Mutant of NotifyReturn: NOTIFY_STOP once the magic has been written.
NotifyReturn_StopsChain(c) ==
  /\ npc[c] = "ret"
  /\ nret' = [nret EXCEPT ![c] = IF nwr[c] # <<>> THEN "NOTIFY_STOP" ELSE NOTIFY_DONE]
  /\ npc' = [npc EXCEPT ![c] = "idle"]
  /\ UNCHANGED <<cmd, info, cmd_>>
  /\ magic' = [magic EXCEPT ![c] = Zero]
  /\ hit' = [hit EXCEPT ![c] = 0]
  /\ nwr' = [nwr EXCEPT ![c] = <<>>]
  /\ UNCHANGED <<rb_lock, chain, upc, ucalls, uaf>>
  /\ UNCHANGED regVars
  /\ UNCHANGED tableVars
  /\ UNCHANGED devmVars

\* return NOTIFY_DONE: the frame of the call is gone.
NotifyReturn(c) ==
  /\ npc[c] = "ret"
  /\ nret' = [nret EXCEPT ![c] = NOTIFY_DONE]
  /\ npc' = [npc EXCEPT ![c] = "idle"]
  /\ UNCHANGED <<cmd, info, cmd_>>
  /\ magic' = [magic EXCEPT ![c] = Zero]
  /\ hit' = [hit EXCEPT ![c] = 0]
  /\ nwr' = [nwr EXCEPT ![c] = <<>>]
  /\ UNCHANGED <<rb_lock, chain, upc, ucalls, uaf>>
  /\ UNCHANGED regVars
  /\ UNCHANGED tableVars
  /\ UNCHANGED devmVars

\* ------------------------------------------------ reboot_mode_unregister

\* Mutant of UnregUnsubscribe: the notifier is left on the chain.
UnregUnsubscribe_Skipped ==
  /\ \/ dpc = "off" /\ upc \in {"idle", "done"} /\ ucalls < MaxUnreg /\ rpc = "ok"
     \/ upc = "called"
  /\ upc' = "lock"
  /\ ucalls' = ucalls + 1
  /\ UNCHANGED <<rb_lock, chain, uaf>>
  /\ UNCHANGED regVars
  /\ UNCHANGED tableVars
  /\ UNCHANGED notifyVars
  /\ UNCHANGED devmVars

\* Called by the handle's owner after a successful reboot_mode_register, or
\* by devm_reboot_mode_release:
\* unregister_reboot_notifier(&reboot->reboot_notifier)
UnregUnsubscribe ==
  /\ \/ dpc = "off" /\ upc \in {"idle", "done"} /\ ucalls < MaxUnreg /\ rpc = "ok"
     \/ upc = "called"
  /\ chain' = unregister_reboot_notifier(chain, reboot_notifier)
  /\ upc' = "lock"
  /\ ucalls' = ucalls + 1
  /\ UNCHANGED <<rb_lock, uaf>>
  /\ UNCHANGED regVars
  /\ UNCHANGED tableVars
  /\ UNCHANGED notifyVars
  /\ UNCHANGED devmVars

\* Mutant of UnregLock: the teardown starts whoever holds the lock.
UnregLock_NoWait ==
  /\ upc = "lock"
  /\ rb_lock' = "unreg"
  /\ upc' = "free"
  /\ UNCHANGED <<chain, ucalls, uaf>>
  /\ UNCHANGED regVars
  /\ UNCHANGED tableVars
  /\ UNCHANGED notifyVars
  /\ UNCHANGED devmVars

\* mutex_lock(&reboot->rb_lock)
UnregLock ==
  /\ upc = "lock"
  /\ rb_lock = "free"
  /\ rb_lock' = "unreg"
  /\ upc' = "free"
  /\ UNCHANGED <<chain, ucalls, uaf>>
  /\ UNCHANGED regVars
  /\ UNCHANGED tableVars
  /\ UNCHANGED notifyVars
  /\ UNCHANGED devmVars

\* One iteration of list_for_each_entry_safe: list_del; kfree_const; kfree.
UnregFree ==
  /\ upc = "free"
  /\ head # <<>>
  /\ head' = Tail(head)
  /\ strs' = strs \ {Head(head)}
  /\ live' = live \ {Head(head)}
  /\ released' = [released EXCEPT ![Head(head)] = @ + 1]
  /\ UNCHANGED <<mem, rb_lock, chain, upc, ucalls, uaf>>
  /\ UNCHANGED regVars
  /\ UNCHANGED notifyVars
  /\ UNCHANGED devmVars

\* Mutant of UnregUnlock: the loop is left after any iteration.
UnregUnlock_LeavesLoopEarly ==
  /\ upc = "free"
  /\ rb_lock' = "free"
  /\ upc' = "done"
  /\ UNCHANGED <<chain, ucalls, uaf>>
  /\ UNCHANGED regVars
  /\ UNCHANGED tableVars
  /\ UNCHANGED notifyVars
  /\ UNCHANGED devmVars

\* mutex_unlock(&reboot->rb_lock); return 0
UnregUnlock ==
  /\ upc = "free"
  /\ head = <<>>
  /\ rb_lock' = "free"
  /\ upc' = "done"
  /\ UNCHANGED <<chain, ucalls, uaf>>
  /\ UNCHANGED regVars
  /\ UNCHANGED tableVars
  /\ UNCHANGED notifyVars
  /\ UNCHANGED devmVars

\* ------------------------------------------------ the device-managed pair

\* The devres of devm_reboot_mode_register is "none" before devres_alloc,
\* "held" once allocated, "added" once on the device's list, "freed" after
\* devres_free and "released" once taken off the list for its release
\* function to run.
devres_alloc(ok) == IF ok THEN "held" ELSE "none"
devres_free(d) == "freed"
devres_add(d) == "added"

\* Taking the devres off the device's list, as devres_release and the end of
\* the device's scope do under the devres lock: at most one caller finds it.
devres_remove(d) ==
  IF d = "added" THEN [found |-> TRUE, dr |-> "released"]
                 ELSE [found |-> FALSE, dr |-> d]

\* dr = devres_alloc(devm_reboot_mode_release, ...); if (!dr) return -ENOMEM
DevmAlloc(ok) ==
  /\ dpc = "alloc"
  /\ dr' = devres_alloc(ok)
  /\ IF ok THEN dpc' = "reg" /\ dret' = dret
           ELSE dpc' = "ret" /\ dret' = ENOMEM
  /\ UNCHANGED <<scope_ended, dcalled>>
  /\ UNCHANGED <<rb_lock, chain, upc, ucalls, uaf>>
  /\ UNCHANGED regVars
  /\ UNCHANGED tableVars
  /\ UNCHANGED notifyVars

\* Mutant of DevmFinish: devres_add whatever reboot_mode_register returned.
DevmFinish_AddsAnyway ==
  /\ dpc = "reg"
  /\ rpc \in {"ok", "fail"}
  /\ dr' = devres_add(dr)
  /\ dret' = ret
  /\ dpc' = "ret"
  /\ UNCHANGED <<scope_ended, dcalled>>
  /\ UNCHANGED <<rb_lock, chain, upc, ucalls, uaf>>
  /\ UNCHANGED regVars
  /\ UNCHANGED tableVars
  /\ UNCHANGED notifyVars

\* rc = reboot_mode_register(...) has returned: if (rc) { devres_free(dr);
\* return rc; } *dr = reboot; devres_add(dev, dr); return 0
DevmFinish ==
  /\ dpc = "reg"
  /\ rpc \in {"ok", "fail"}
  /\ dr' = IF ret # "0" THEN devres_free(dr) ELSE devres_add(dr)
  /\ dret' = ret
  /\ dpc' = "ret"
  /\ UNCHANGED <<scope_ended, dcalled>>
  /\ UNCHANGED <<rb_lock, chain, upc, ucalls, uaf>>
  /\ UNCHANGED regVars
  /\ UNCHANGED tableVars
  /\ UNCHANGED notifyVars

\* The owning device's scope ends, once the driver's own calls have
\* returned: the release function of every devres still on its list is
\* called, devm_reboot_mode_release among them, which calls
\* reboot_mode_unregister.
DevmScopeEnd ==
  /\ dpc = "ret"
  /\ ~scope_ended
  /\ upc \in {"idle", "done"}
  /\ scope_ended' = TRUE
  /\ LET r == devres_remove(dr)
     IN /\ dr' = r.dr
        /\ upc' = IF r.found THEN "called" ELSE upc
  /\ UNCHANGED <<dpc, dret, dcalled>>
  /\ UNCHANGED <<rb_lock, chain, ucalls, uaf>>
  /\ UNCHANGED regVars
  /\ UNCHANGED tableVars
  /\ UNCHANGED notifyVars

\* devm_reboot_mode_unregister: WARN_ON(devres_release(dev,
\* devm_reboot_mode_release, devm_reboot_mode_match, reboot)); the release
\* function runs only if the devres was found.  The driver calls it while
\* its device is bound.
DevmUnregister ==
  /\ dpc = "ret"
  /\ ~dcalled
  /\ ~scope_ended
  /\ dcalled' = TRUE
  /\ LET r == devres_remove(dr)
     IN /\ dr' = r.dr
        /\ upc' = IF r.found THEN "called" ELSE upc
  /\ UNCHANGED <<dpc, dret, scope_ended>>
  /\ UNCHANGED <<rb_lock, chain, ucalls, uaf>>
  /\ UNCHANGED regVars
  /\ UNCHANGED tableVars
  /\ UNCHANGED notifyVars

\* ------------------------------------------------------------------ Spec

Next ==
  \/ RegStart
  \/ \E allocInfo \in BOOLEAN, allocStr \in BOOLEAN : RegScan(allocInfo, allocStr)
  \/ RegSubscribe
  \/ RegUnlock
  \/ RegError
  \/ \E c \in Ctx, s \in Cmds : NotifyCall(c, s)
  \/ \E c \in Ctx : NotifyLock(c)
  \/ \E c \in Ctx : NotifyScan1(c)
  \/ \E c \in Ctx : NotifyCopy(c)
  \/ \E c \in Ctx : NotifyScan2(c)
  \/ \E c \in Ctx : NotifyUnlock(c)
  \/ \E c \in Ctx : NotifyWrite(c)
  \/ \E c \in Ctx : NotifyReturn(c)
  \/ UnregUnsubscribe
  \/ UnregLock
  \/ UnregFree
  \/ UnregUnlock
  \/ \E ok \in BOOLEAN : DevmAlloc(ok)
  \/ DevmFinish
  \/ DevmScopeEnd
  \/ DevmUnregister

Spec == Init /\ [][Next]_vars

FairInit == Init /\ np \in FairNodes

\* A fair scheduler runs every step of an operation that has started, and a
\* notification that waits in mutex_lock gets the mutex in the end, however
\* often other notifications take it (the kernel's mutex hands the lock over
\* to a waiter that was passed over); the write callback returns.  Nothing
\* obliges the host to start a registration, a notification or an
\* unregistration.
RegisterStep ==
  \/ \E allocInfo \in BOOLEAN, allocStr \in BOOLEAN : RegScan(allocInfo, allocStr)
  \/ RegSubscribe
  \/ RegUnlock
  \/ RegError

\* The steps of a started notification other than mutex_lock and the copy.
NotifyStep(c) ==
  \/ NotifyScan1(c)
  \/ NotifyScan2(c)
  \/ NotifyUnlock(c)
  \/ NotifyWrite(c)
  \/ NotifyReturn(c)

UnregisterStep ==
  \/ upc = "called" /\ UnregUnsubscribe
  \/ UnregLock
  \/ UnregFree
  \/ UnregUnlock

\* WF_vars(NotifyCopy(c)): NotifyCopy(c) is enabled exactly at "copy" and
\* leaves it, so weak fairness of it says that c is not at "copy" for ever.
CopyIsFair(c) == []<>(npc[c] # "copy")

Fairness ==
  /\ WF_vars(RegisterStep)
  /\ WF_vars(UnregisterStep)
  /\ \A c \in Ctx :
       SF_vars(NotifyLock(c)) /\ WF_vars(NotifyStep(c)) /\ CopyIsFair(c)

FairSpec == FairInit /\ [][Next]_vars /\ Fairness

\* ------------------------------------------------- vocabulary of the claims

\* The ids linked into the table.
TableIds == {head[k] : k \in 1..Len(head)}

\* The earliest-inserted of a set of entries: ids are given in scan order.
Earliest(S) == CHOOSE i \in S : \A j \in S : i <= j

\* s with every space, comma and forward slash turned into a hyphen.
Hyphenated(s) ==
  [k \in 1..Len(s) |-> IF s[k] \in {" ", ",", "/"} THEN "-" ELSE s[k]]

\* The string fits the working buffer with its terminator.
Fits(s) == Len(s) + 1 <= CMD_SIZE

\* The entries whose name is the request verbatim / the normalized request.
ExactIds(s) == {i \in TableIds : mem[i].mode = s}
NormIds(s) == {i \in TableIds : mem[i].mode = Hyphenated(s)}

\* The lookup of context c is over: it still holds the lock and its request.
Resolved(c) == npc[c] = "unlock"

\* The one write a notification that found magic m makes.
TheWrite(m) == <<[reboot |-> Handle, magic |-> m]>>

\* ---------------------------------------------------------------- claims

\* C1 (as stated): when the requested mode matches an entry, in the exact or
\* in the normalized pass, the notification invokes the write callback exactly
\* once, with the handle and that entry's magic, whatever the magic is.
C1_WriteOnceAnyMagic ==
  \A c \in Ctx :
    /\ Resolved(c) =>
         LET s == CmdStr(cmd[c])
         IN (ExactIds(s) # {} \/ (Fits(s) /\ NormIds(s) # {})) <=> hit[c] # 0
    /\ npc[c] = "ret" /\ hit[c] # 0 => nwr[c] = TheWrite(mem[hit[c]].magic)

\* C1 (amended): when the requested mode matches an entry, the notification
\* invokes the write callback exactly once, with the handle and that entry's
\* magic, if that magic is not 0, and never before the lookup is over; an
\* entry whose magic is 0 is handled as not found: no write.
C1_WriteOnceNonZeroMagic ==
  \A c \in Ctx :
    /\ Resolved(c) =>
         LET s == CmdStr(cmd[c])
         IN (ExactIds(s) # {} \/ (Fits(s) /\ NormIds(s) # {})) <=> hit[c] # 0
    /\ npc[c] \in {"lock", "scan1", "copy", "scan2", "unlock", "write"} => nwr[c] = <<>>
    /\ npc[c] = "ret" /\ hit[c] # 0 =>
         nwr[c] = IF mem[hit[c]].magic # Zero THEN TheWrite(mem[hit[c]].magic) ELSE <<>>

\* C1 witness: a notification about to return has matched an entry with a
\* magic whose low half is 0 and has written it once.
C1_Witness ==
  \E c \in Ctx :
    /\ npc[c] = "ret"
    /\ hit[c] # 0
    /\ mem[hit[c]].magic = [hi |-> 1, lo |-> 0]
    /\ nwr[c] = TheWrite([hi |-> 1, lo |-> 0])

\* C2: when an entry's name is the requested mode verbatim, the lookup
\* returns the magic of the earliest-inserted such entry, also when an entry
\* inserted before it matches the normalized request only.
C2_FirstExactMatchWins ==
  \A c \in Ctx :
    Resolved(c) /\ ExactIds(CmdStr(cmd[c])) # {} =>
      /\ hit[c] = Earliest(ExactIds(CmdStr(cmd[c])))
      /\ magic[c] = mem[hit[c]].magic

\* C2 witness: the lookup returned the second entry, an exact match, though
\* the first entry matches the normalized request.
C2_Witness ==
  \E c \in Ctx :
    /\ Resolved(c)
    /\ head = <<1, 2>>
    /\ mem[1].mode = Hyphenated(CmdStr(cmd[c]))
    /\ mem[1].mode # CmdStr(cmd[c])
    /\ mem[2].mode = CmdStr(cmd[c])
    /\ hit[c] = 2
    /\ magic[c] = mem[2].magic

\* C3: for a request that fits the buffer (at most 109 characters) and has no
\* exact match, the lookup returns the magic of the earliest-inserted entry
\* whose name is the request with every space, comma and slash turned into a
\* hyphen, and not_found (0) when there is none.
C3_NormalizedMatch ==
  \A c \in Ctx :
    LET s == CmdStr(cmd[c])
    IN Resolved(c) /\ Fits(s) /\ ExactIds(s) = {} =>
         IF NormIds(s) # {}
           THEN /\ hit[c] = Earliest(NormIds(s))
                /\ magic[c] = mem[hit[c]].magic
           ELSE /\ hit[c] = 0
                /\ magic[c] = Zero

\* C3 witness: a 109-character request holding a space, a comma and a slash
\* has no exact match and was resolved to the entry named with hyphens.
C3_Witness ==
  \E c \in Ctx :
    /\ Resolved(c)
    /\ cmd[c] = [null |-> FALSE, str |-> S_fit]
    /\ ExactIds(S_fit) = {}
    /\ hit[c] # 0
    /\ mem[hit[c]].mode = L_fit
    /\ magic[c] = [hi |-> 1, lo |-> 0]

\* C4 (as stated): a request longer than the bound resolves to not_found for
\* every table, without a normalized pass and without overrunning the buffer.
C4_OverlongNotFoundAnyTable ==
  \A c \in Ctx :
    /\ Resolved(c) /\ ~Fits(CmdStr(cmd[c])) => hit[c] = 0 /\ magic[c] = Zero
    /\ npc[c] = "scan2" => Fits(CmdStr(cmd[c]))
    /\ Len(cmd_[c]) + 1 <= CMD_SIZE

\* C4 (amended): a request longer than the bound that no entry's name equals
\* verbatim resolves to not_found; no normalized pass runs on a request
\* longer than the bound, and the working buffer never holds more than 109
\* characters and the terminator.  (An overlong request that an entry's name
\* equals verbatim is still resolved by the exact pass.)
C4_OverlongNotFoundUnlessExact ==
  \A c \in Ctx :
    /\ Resolved(c) /\ ~Fits(CmdStr(cmd[c])) /\ ExactIds(CmdStr(cmd[c])) = {} =>
         hit[c] = 0 /\ magic[c] = Zero
    /\ npc[c] = "scan2" => Fits(CmdStr(cmd[c]))
    /\ Len(cmd_[c]) + 1 <= CMD_SIZE

\* C4 witness: a 110-character request came back not_found from a table
\* holding the entry that its first 109 characters, normalized, would match.
C4_Witness ==
  \E c \in Ctx :
    /\ Resolved(c)
    /\ cmd[c] = [null |-> FALSE, str |-> S_long]
    /\ \E i \in TableIds : mem[i].mode = L_fit
    /\ Len(cmd_[c]) = CMD_SIZE - 1
    /\ hit[c] = 0
    /\ magic[c] = Zero

\* The properties of the node, by index in scan order.
PropIdx == 1..Len(np.props)

\* Property k carries the "mode-" prefix; its mode name; it has a low magic.
Prefixed(k) == HasPrefix(np.props[k].name, PREFIX)
ModeName(k) == SubSeq(np.props[k].name, Len(PREFIX) + 1, Len(np.props[k].name))
HasLow(k) == Len(np.props[k].val) >= 1

\* reboot_mode_register has returned.
RegReturned == rpc \in {"ok", "fail"}

\* Nothing is linked and nothing is allocated.
NothingLeft == head = <<>> /\ live = {} /\ strs = {}

\* C5 (as stated): Register over a node holding any prefixed property with an
\* empty mode name fails with InvalidArgument (unless an allocation failed
\* first) and leaves no entry linked or allocated.
C5_AnyEmptyNameFails ==
  /\ RegReturned
  /\ ~np.null
  /\ \E k \in PropIdx : Prefixed(k) /\ ModeName(k) = <<>>
  /\ ret # ENOMEM
  => ret = EINVAL /\ NothingLeft

\* C5 (amended): Register over a node holding a prefixed property with an
\* empty mode name and a low magic value fails with InvalidArgument (unless
\* an allocation failed first) and leaves no entry linked or allocated; a
\* prefixed property with an empty name and no low magic value is skipped
\* like any property without a low magic value, and is no error.
C5_EmptyNameWithMagicFails ==
  /\ RegReturned /\ ~np.null /\ ret # ENOMEM
       /\ (\E k \in PropIdx : Prefixed(k) /\ ModeName(k) = <<>> /\ HasLow(k))
     => ret = EINVAL /\ NothingLeft
  /\ RegReturned /\ ~np.null
       /\ ~(\E k \in PropIdx : Prefixed(k) /\ ModeName(k) = <<>> /\ HasLow(k))
     => ret # EINVAL

\* C5 witness: Register failed with -EINVAL at the second property after it
\* had linked the first, and nothing is left.
C5_Witness ==
  /\ rpc = "fail"
  /\ ret = EINVAL
  /\ ri = 2
  /\ mem[1].mode # <<>>
  /\ Prefixed(2) /\ ModeName(2) = <<>> /\ HasLow(2)
  /\ NothingLeft

\* C6: whenever Register has returned an error, every entry it had linked is
\* released, the table is empty, the lock is free, the notifier is not on the
\* chain, and no notification has reached or can reach the handle.
C6_AllOrNothing ==
  rpc = "fail" =>
    /\ ret \in {EINVAL, ENOMEM}
    /\ NothingLeft
    /\ rb_lock = "free"
    /\ reboot_notifier \notin chain
    /\ \A c \in Ctx : npc[c] = "idle" /\ nret[c] = "none"
    /\ \A c \in Ctx, s \in Cmds : ~ENABLED NotifyCall(c, s)

\* C6 witness: Register failed with -ENOMEM at the second property after it
\* had linked the first.
C6_Witness ==
  /\ rpc = "fail"
  /\ ret = ENOMEM
  /\ ri = 2
  /\ mem[1].mode # <<>>
  /\ NothingLeft
  /\ rb_lock = "free"

\* C7: over a node without an empty mode name, and with no allocation
\* failing, Register returns 0 and the table holds, in scan order, exactly
\* one entry per prefixed property that has a low magic value, named by the
\* property's name after the prefix, with magic (high << 32) | low, high
\* being 0 when absent.
C7_BuildsTableInOrder ==
  /\ RegReturned
  /\ ~np.null
  /\ \A k \in PropIdx : Prefixed(k) => ModeName(k) # <<>>
  /\ ret # ENOMEM
  => /\ rpc = "ok"
     /\ ret = "0"
     /\ upc = "idle" =>
          /\ TableIds = {k \in PropIdx : Prefixed(k) /\ HasLow(k)}
          /\ \A p, q \in 1..Len(head) : p < q => head[p] < head[q]
          /\ live = TableIds
          /\ strs = TableIds
          /\ \A k \in TableIds :
               /\ mem[k].mode = ModeName(k)
               /\ mem[k].magic.lo = np.props[k].val[1]
               /\ mem[k].magic.hi =
                    IF Len(np.props[k].val) >= 2 THEN np.props[k].val[2] ELSE 0

\* C7 witness: Register returned 0 having skipped a prefixed property with no
\* low magic value and linked the next one, which has both cells.
C7_Witness ==
  /\ rpc = "ok"
  /\ upc = "idle"
  /\ Len(np.props) = 2
  /\ Prefixed(1) /\ ModeName(1) # <<>> /\ ~HasLow(1)
  /\ Len(np.props[2].val) = 2
  /\ head = <<2>>

\* Where a notification callback holds the lock: inside its lookup.
LockedPcs == {"scan1", "copy", "scan2", "unlock"}

\* The ids Register linked into the table (mem keeps them after the release).
Inserted == {k \in Ids : mem[k].mode # <<>>}

\* C8: lookup and teardown exclude each other: a lookup in progress holds the
\* lock, Unregister is not releasing entries meanwhile, the entry under the
\* lookup's cursor is linked and allocated (name and mode_info), no freed
\* entry is ever read, and Unregister releases entries only with the lock held.
C8_LookupExcludesTeardown ==
  /\ ~uaf
  /\ \A c \in Ctx :
       npc[c] \in LockedPcs =>
         /\ rb_lock = c
         /\ upc # "free"
         /\ info[c] # 0 => info[c] \in TableIds /\ info[c] \in live /\ info[c] \in strs
  /\ upc = "free" => rb_lock = "unreg"

\* C8 witness: a lookup is reading an entry while Unregister, already past
\* the unsubscription, waits for the lock.
C8_Witness ==
  \E c \in Ctx :
    /\ npc[c] \in {"scan1", "scan2"}
    /\ info[c] # 0
    /\ upc = "lock"

\* C9: Unregister has taken the notifier off the chain before it releases an
\* entry and before it returns, and once Unregister has returned no
\* notification is dispatched to the handle: no context enters the handler,
\* so no lookup starts and no write is made for a notification issued then.
C9_NoDispatchAfterUnregister ==
  [][/\ (rpc = "ok" /\ live' # live) => reboot_notifier \notin chain
     /\ upc' = "done" => reboot_notifier \notin chain'
     /\ upc = "done" =>
          \A c \in Ctx : npc[c] = "idle" => npc'[c] = "idle" /\ nwr'[c] = <<>>]_vars

\* C9 witness: Unregister has returned on a handle that had entries and had
\* served a notification; everything is released and the chain is empty.
C9_Witness ==
  /\ upc = "done"
  /\ Inserted # {}
  /\ live = {}
  /\ chain = {}
  /\ \E c \in Ctx : npc[c] = "idle" /\ nret[c] = NOTIFY_DONE

\* C10 (as stated): Unregister neither releases an entry nor returns while a
\* notification callback that started earlier has not finished, its write
\* callback included: here, while a callback that has done its lookup under
\* the lock has still to make its write.
C10_WaitsForWholeCallback ==
  (upc = "done" \/ (upc = "free" /\ live # Inserted)) =>
    \A c \in Ctx : npc[c] # "write"

\* C10 (amended): the lock makes Unregister wait for the locked part of a
\* callback only: every step by which Unregister releases an entry, and the
\* step by which it returns, is taken with the lock held by Unregister and no
\* notification callback inside its lookup.
C10_WaitsForLockedLookup ==
  [][(upc = "free" /\ (live' # live \/ upc' = "done")) =>
       /\ rb_lock = "unreg"
       /\ \A c \in Ctx : npc[c] \notin LockedPcs /\ npc'[c] \notin LockedPcs]_vars

\* C10 witness: Unregister has released every entry and returned while a
\* callback that found a magic has not yet made its write.
C10_Witness ==
  /\ upc = "done"
  /\ Inserted # {}
  /\ live = {}
  /\ \E c \in Ctx : npc[c] = "write" /\ hit[c] # 0

\* The literal mode name an absent request stands for.
LitNormal == <<"n", "o", "r", "m", "a", "l">>

\* The request of context c is absent, or is the literal "normal".
AbsentOrNormal(c) == cmd[c].null \/ cmd[c] = [null |-> FALSE, str |-> LitNormal]

\* C11 (as stated): a lookup with an absent request and a lookup of the
\* literal "normal" give the same result, the earliest entry named "normal"
\* or not_found; and the notification then writes that entry's magic.
C11_AbsentIsNormalAndWritten ==
  \A c \in Ctx :
    /\ Resolved(c) /\ AbsentOrNormal(c) =>
         IF ExactIds(LitNormal) # {}
           THEN hit[c] = Earliest(ExactIds(LitNormal)) /\ magic[c] = mem[hit[c]].magic
           ELSE hit[c] = 0 /\ magic[c] = Zero
    /\ npc[c] = "ret" /\ hit[c] # 0 /\ mem[hit[c]].mode = LitNormal =>
         nwr[c] = TheWrite(mem[hit[c]].magic)

\* C11 (amended): a lookup with an absent request and a lookup of the literal
\* "normal" give the same result, the earliest entry named "normal" or
\* not_found; the notification then writes that entry's magic if it is not
\* 0, and writes nothing if it is 0.
C11_AbsentIsNormal ==
  \A c \in Ctx :
    /\ Resolved(c) /\ AbsentOrNormal(c) =>
         IF ExactIds(LitNormal) # {}
           THEN hit[c] = Earliest(ExactIds(LitNormal)) /\ magic[c] = mem[hit[c]].magic
           ELSE hit[c] = 0 /\ magic[c] = Zero
    /\ npc[c] = "ret" /\ hit[c] # 0 /\ mem[hit[c]].mode = LitNormal =>
         nwr[c] = IF mem[hit[c]].magic # Zero THEN TheWrite(mem[hit[c]].magic) ELSE <<>>

\* C11 witness: a lookup with an absent request returned the magic 3 of the
\* entry named "normal".
C11_Witness ==
  \E c \in Ctx :
    /\ Resolved(c)
    /\ cmd[c].null
    /\ hit[c] # 0
    /\ mem[hit[c]].mode = LitNormal
    /\ magic[c] = [hi |-> 0, lo |-> 3]

\* C12: every return of the notification handler gives NOTIFY_DONE, whether
\* a magic was found and written or not; no other value is ever returned.
C12_AlwaysNotifyDone ==
  /\ [](\A c \in Ctx : nret[c] \in {"none", NOTIFY_DONE})
  /\ [][\A c \in Ctx : npc[c] = "ret" /\ npc'[c] = "idle" => nret'[c] = NOTIFY_DONE]_vars

\* C12 witness: one notification has returned NOTIFY_DONE after a write was
\* made in it or in the other one, which found nothing and is about to return.
C12_Witness ==
  \E c, d \in Ctx :
    /\ npc[c] = "idle" /\ nret[c] = NOTIFY_DONE
    /\ npc[d] = "ret" /\ hit[d] = 0 /\ nwr[d] = <<>>
    /\ head # <<>>

\* C13: a request that matches no entry, neither verbatim nor (when it fits
\* the buffer) normalized, resolves to not_found, and a notification whose
\* lookup matched nothing never reaches the write and returns without one.
C13_NoMatchNoWrite ==
  \A c \in Ctx :
    LET s == CmdStr(cmd[c])
    IN /\ Resolved(c) /\ ExactIds(s) = {} /\ (Fits(s) => NormIds(s) = {}) =>
            hit[c] = 0 /\ magic[c] = Zero
       /\ npc[c] = "write" => hit[c] # 0
       /\ npc[c] = "ret" /\ hit[c] = 0 => nwr[c] = <<>>

\* C13 witness: a request that fits the buffer was looked up, verbatim and
\* normalized, in a table of two entries and came back not_found.
C13_Witness ==
  \E c \in Ctx :
    /\ Resolved(c)
    /\ cmd[c] = [null |-> FALSE, str |-> S_fit]
    /\ Len(head) = 2
    /\ hit[c] = 0
    /\ magic[c] = Zero

\* C16: in every state, those in the middle of Register included, every entry
\* linked into the table has a non-empty name.
C16_LinkedNamesNonEmpty ==
  \A k \in TableIds : mem[k].mode # <<>> /\ Prefixed(k) /\ ModeName(k) # <<>>

\* C16 witness: Register has linked an entry and its scan stands before a
\* prefixed property with a low magic value and an empty name.
C16_Witness ==
  /\ rpc = "scan"
  /\ head = <<1>>
  /\ ri = 2
  /\ ri <= Len(np.props)
  /\ Prefixed(2) /\ ModeName(2) = <<>> /\ HasLow(2)

\* C17: whenever a notification is at its write callback, its context does
\* not hold the lock; the lock is free or held by another context.
C17_WriteOutsideLock ==
  \A c \in Ctx :
    /\ npc[c] = "write" => rb_lock # c
    /\ npc[c] \in {"write", "ret", "idle", "lock"} => rb_lock # c

\* C17 witness: one notification is at its write callback while the other
\* context holds the lock and is inside its lookup.
C17_Witness ==
  \E c, d \in Ctx :
    /\ npc[c] = "write"
    /\ d # c
    /\ npc[d] \in {"scan1", "scan2"}
    /\ rb_lock = d

\* C18: no write is ever made with magic 0: a notification whose lookup
\* returned 0 never reaches the write, whether nothing matched or the matched
\* entry's magic is 0.
C18_NeverWritesZero ==
  \A c \in Ctx :
    /\ \A k \in 1..Len(nwr[c]) : nwr[c][k].magic # Zero
    /\ npc[c] = "write" => magic[c] # Zero
    /\ npc[c] = "ret" /\ magic[c] = Zero => nwr[c] = <<>>

\* C18 witness: a notification that matched an entry whose magic is 0 is
\* about to return without a write.
C18_Witness ==
  \E c \in Ctx :
    /\ npc[c] = "ret"
    /\ hit[c] # 0
    /\ mem[hit[c]].magic = Zero
    /\ nwr[c] = <<>>

\* The table a successful Register builds: the prefixed properties that have
\* a low magic value, in property order.
RegisteredTable ==
  SelectSeq([k \in 1..Len(np.props) |-> k], LAMBDA k : Prefixed(k) /\ HasLow(k))

\* C15: no step of a notification changes the table; a linked entry is never
\* modified; the list changes only by an append of Register's scan or by a
\* removal made under the lock by Unregister or Register's error path, which
\* keep the lock until the list is empty, so that after a successful Register
\* whoever can take the lock finds the whole table or none of it.
C15_TableOnlyGrowsOrIsDiscarded ==
  /\ [][(\E c \in Ctx : npc'[c] # npc[c]) => UNCHANGED tableVars]_vars
  /\ [][\A k \in TableIds : k \in {head'[j] : j \in 1..Len(head')} => mem'[k] = mem[k]]_vars
  /\ [][head' # head =>
          \/ rpc = "scan" /\ rb_lock = "reg" /\ \E k \in Ids : head' = Append(head, k)
          \/ rpc = "error" /\ rb_lock = "reg" /\ head' = <<>>
          \/ upc = "free" /\ rb_lock = "unreg" /\ rb_lock' = "unreg" /\ head' = Tail(head)]_vars
  /\ [](rpc = "ok" /\ rb_lock \notin {"reg", "unreg"} =>
          head = RegisteredTable \/ head = <<>>)
  /\ [](rpc = "ok" /\ upc = "idle" => head = RegisteredTable)

\* C15 witness: with a table of two entries, one notification has come back
\* and the other has made its write, and the table is the one Register built.
C15_Witness ==
  \E c, d \in Ctx :
    /\ rpc = "ok" /\ upc = "idle"
    /\ npc[c] = "idle" /\ nret[c] = NOTIFY_DONE
    /\ npc[d] = "ret" /\ nwr[d] # <<>>
    /\ Len(head) = 2
    /\ head = RegisteredTable

\* A call of reboot_mode_unregister has returned.
Unregistered == upc = "done" \/ ucalls >= 2

\* C19: once Unregister has returned the table is empty and nothing of it is
\* allocated; no entry is released twice; a second Unregister finds an empty
\* list at every iteration of its loop; and a lookup that runs after the
\* teardown scans an empty list, returns not_found and goes on to no write.
C19_TeardownLeavesEmptyTable ==
  /\ [](Unregistered => head = <<>> /\ live = {} /\ strs = {})
  /\ [](\A k \in Ids : released[k] <= 1)
  /\ [](uaf = FALSE)
  /\ [](\A c \in Ctx :
          Unregistered /\ npc[c] \in LockedPcs =>
            info[c] = 0 /\ hit[c] = 0 /\ magic[c] = Zero)
  /\ [][\A c \in Ctx :
          Unregistered /\ npc[c] = "unlock" => npc'[c] # "write"]_vars

\* C19 witness: Unregister has returned twice on a table that had two
\* entries, each released once, and a notification that was waiting for the
\* lock has finished its lookup.
C19_Witness ==
  \E c \in Ctx :
    /\ ucalls = 2 /\ upc = "done"
    /\ Len(RegisteredTable) = 2
    /\ \A k \in Ids : released[k] = 1
    /\ Resolved(c)

\* C14: under the device-managed registration reboot_mode_unregister is
\* called at most once, and only through a devres that was added after a
\* successful registration: it has been called exactly when that devres has
\* been taken off the device's list, which the end of the device's scope and
\* the explicit devm_reboot_mode_unregister do at most once between them; a
\* failed registration leaves no devres on the list and Unregister never runs.
C14_ManagedUnregisterOnce ==
  /\ [](dpc # "off" => ucalls <= 1)
  /\ [](dpc # "off" => (dr = "released") = (upc # "idle"))
  /\ [](dpc # "off" /\ upc = "called" => ucalls = 0)
  /\ [](dpc # "off" /\ upc \notin {"idle", "called"} => ucalls = 1)
  /\ [](dr \in {"added", "released"} => dret = "0" /\ rpc = "ok")
  /\ [](dpc = "ret" /\ dret # "0" => dr \in {"none", "freed"} /\ upc = "idle" /\ ucalls = 0)
  /\ [](dret = "0" /\ (scope_ended \/ dcalled) => dr = "released")
  /\ [][dpc # "off" /\ upc # "called" /\ upc' = "called" =>
          dr = "added" /\ dr' = "released" /\ upc = "idle"]_vars

\* C14 witness: after a successful managed registration both the explicit
\* unregister and the end of the scope have happened, and Unregister has run
\* once, to its end.
C14_Witness ==
  /\ dret = "0"
  /\ scope_ended /\ dcalled
  /\ ucalls = 1
  /\ upc = "done"
  /\ released[1] = 1

\* reboot_mode_unregister has been entered and has not returned.
UnregRunning == upc \in {"called", "lock", "free"}

\* C20: no operation holds the lock once it has returned, or while it is
\* outside its locked part: Register on any exit, the notification handler
\* before mutex_lock and from the write on, Unregister after its loop.  Under a
\* fair scheduler every started notification returns and every started
\* Unregister returns.
C20_LocksReleasedAndProgress ==
  /\ [](rpc \in {"start", "ok", "fail"} => rb_lock # "reg")
  /\ [](\A c \in Ctx : npc[c] \in {"idle", "lock", "write", "ret"} => rb_lock # c)
  /\ [](upc \in {"idle", "called", "lock", "done"} => rb_lock # "unreg")
  /\ \A c \in Ctx : (npc[c] # "idle") ~> (npc[c] = "idle")
  /\ UnregRunning ~> (upc = "done")

\* C20 witness: both contexts and Unregister contend for the lock: one
\* notification is inside its lookup, the other and Unregister wait in
\* mutex_lock.
C20_Witness ==
  \E c, d \in Ctx :
    /\ c # d
    /\ npc[c] \in LockedPcs /\ rb_lock = c
    /\ npc[d] = "lock"
    /\ upc = "lock"

====
